---- MODULE Spec2Model ----
(***************************************************************************)
(* MicroSafari connector: the connection-and-transmission resilience       *)
(* engine of src/unnamed/part_000 (class MicroSafari declared in           *)
(* src/src/MicroSafari.h).                                                 *)
(*                                                                         *)
(* The program is single-threaded and every call blocks, so one action is  *)
(* one public call run to completion.  A function of the class is an       *)
(* operator from the state it is entered in to the set of states it can    *)
(* return in: one for every choice the environment makes inside the call   *)
(* (the HTTP code of every attempt, how long an attempt takes, whether an  *)
(* association attempt succeeds).  Between calls the clock may advance and *)
(* the link may come up or drop.                                           *)
(*                                                                         *)
(* Time is counted in units of 10 000 ms: the reconnect window             *)
(* 30000 + failures * 10000 ms is ReconnectBase + failures * ReconnectStep.*)
(* delay(1000) in resetConnectionState and the 500 ms poll of connectWiFi  *)
(* are below one unit.                                                     *)
(*                                                                         *)
(* A JSON text is a sequence of tokens: "{" "}" ":" "," and the two        *)
(* strings "p" (the text "payload") and "k" (any other string).            *)
(***************************************************************************)
EXTENDS Integers, Sequences, FiniteSets, TLC

VARIABLES
    status,                 \* _status
    lastConnectionAttempt,  \* _lastConnectionAttempt
    connectionTimeout,      \* _connectionTimeout
    maxRetries,             \* _maxRetries
    retryDelay,             \* _retryDelay
    lastHeartbeat,          \* _lastHeartbeat
    heartbeatInterval,      \* _heartbeatInterval
    consecutiveFailures,    \* _consecutiveFailures
    maxConsecutiveFailures, \* _maxConsecutiveFailures
    lastErrorTime,          \* _lastErrorTime
    lastErrorMessage,       \* _lastErrorMessage
    autoReconnect,          \* _autoReconnect
    wifi,                   \* WiFi.status() == WL_CONNECTED
    now,                    \* millis()
    call,                   \* the last public call: what it did and returned
    contacted,              \* history: some POST has been answered 200 or 201
    initialized,            \* _initialized            (src/src/MicroSafari.cpp)
    wifiSSID,               \* _wifiSSID
    wifiPassword,           \* _wifiPassword
    apiKey,                 \* _apiKey
    platformURL,            \* _platformURL
    deviceName,             \* _deviceName
    lastReconnectAttempt,   \* static lastReconnectAttempt of loop()
    available,              \* the access point is in reach
    joining                 \* the network layer is trying to associate

device == <<status, lastConnectionAttempt, lastHeartbeat, consecutiveFailures,
            lastErrorTime, lastErrorMessage>>
config == <<connectionTimeout, maxRetries, retryDelay, heartbeatInterval,
            maxConsecutiveFailures, autoReconnect>>
stored == <<wifiSSID, wifiPassword, apiKey, platformURL, deviceName>>
simple == <<initialized, stored, lastReconnectAttempt>>
network == <<available, joining>>
vars == <<device, config, wifi, now, call, contacted, simple, network>>

----------------------------------------------------------------------------
(* Bounds of the model *)

MaxTime == 4
MaxRetriesCfg == 2
MaxFailuresCfg == 2
MaxDocLen == 6

----------------------------------------------------------------------------
(* Program constants *)

ClockMod == 429497
ReconnectBase == 3
ReconnectStep == 1

DISCONNECTED == "MICROSAFARI_DISCONNECTED"
WIFI_CONNECTING == "MICROSAFARI_WIFI_CONNECTING"
WIFI_CONNECTED == "MICROSAFARI_WIFI_CONNECTED"
PLATFORM_CONNECTED == "MICROSAFARI_PLATFORM_CONNECTED"
ERROR == "MICROSAFARI_ERROR"

MicroSafariStatus ==
    {DISCONNECTED, WIFI_CONNECTING, WIFI_CONNECTED, PLATFORM_CONNECTED, ERROR}

Codes == {200, 201, 204, 302, 400, 401, 500, 503, -1}

IngestEndpoint == "/api/ingest"

EmptyString == <<>>
InvalidPayloadMsg == <<"Invalid JSON payload structure">>
WiFiNotConnectedMsg == <<"WiFi not connected">>
AuthFailedMsg == <<"Authentication failed - check API key">>
InvalidDataMsg == <<"Invalid data format">>
ServiceUnavailableMsg == <<"Service unavailable - development mode">>
NetworkErrorMsg == <<"Network error - check connection">>
HeartbeatFailedMsg == <<"Heartbeat failed">>
WiFiFailedMsg == <<"WiFi connection failed (status: ", "WL_DISCONNECTED", ")">>

ServerErrorMsg(code) ==
    <<"Server error (HTTP ", ToString(code), ") - all ", "retries exhausted">>

----------------------------------------------------------------------------
(* unsigned long arithmetic on timestamps *)

\* Mutant: the difference is taken without the wrap, 0 when it is negative.
Elapsed_NoWrap(t1, t0) == IF t1 >= t0 THEN t1 - t0 ELSE 0

Elapsed(t1, t0) == (t1 - t0) % ClockMod

----------------------------------------------------------------------------
(* JSON: serializeJson and deserializeJson over token sequences *)

StringTokens == {"p", "k"}
Tokens == {"{", "}", ":", ","} \cup StringTokens

Str(s) == [t |-> "str", s |-> s, m |-> <<>>]
Obj(members) == [t |-> "obj", s |-> "", m |-> members]

RECURSIVE serializeJson(_)
RECURSIVE SerializeMembers(_, _)
SerializeMembers(m, i) ==
    IF i > Len(m) THEN <<>>
    ELSE (IF i > 1 THEN <<",">> ELSE <<>>)
         \o <<m[i][1], ":">> \o serializeJson(m[i][2])
         \o SerializeMembers(m, i + 1)

serializeJson(v) ==
    IF v.t = "str" THEN <<v.s>>
    ELSE <<"{">> \o SerializeMembers(v.m, 1) \o <<"}">>

ParseFail == [next |-> 0, isObject |-> FALSE, keys |-> {}]

RECURSIVE ParseValue(_, _)
RECURSIVE ParseMembers(_, _, _)
ParseMembers(s, i, keys) ==
    IF i + 1 > Len(s) \/ s[i] \notin StringTokens \/ s[i + 1] # ":"
    THEN ParseFail
    ELSE LET v == ParseValue(s, i + 2)
             j == v.next
         IN IF j = 0 \/ j > Len(s) THEN ParseFail
            ELSE IF s[j] = "}"
                 THEN [next |-> j + 1, isObject |-> TRUE,
                       keys |-> keys \cup {s[i]}]
            ELSE IF s[j] = ","
                 THEN ParseMembers(s, j + 1, keys \cup {s[i]})
            ELSE ParseFail

ParseValue(s, i) ==
    IF i > Len(s) THEN ParseFail
    ELSE IF s[i] \in StringTokens
         THEN [next |-> i + 1, isObject |-> FALSE, keys |-> {}]
    ELSE IF s[i] = "{"
         THEN IF i + 1 <= Len(s) /\ s[i + 1] = "}"
              THEN [next |-> i + 2, isObject |-> TRUE, keys |-> {}]
              ELSE ParseMembers(s, i + 1, {})
    ELSE ParseFail

deserializeJson(s) ==
    LET v == ParseValue(s, 1)
    IN IF v.next = Len(s) + 1
       THEN [error |-> FALSE, keys |-> v.keys]
       ELSE [error |-> TRUE, keys |-> {}]

\* Mutant: any key of the root object counts as the wrapper key.
containsKey_AnyKey(doc, key) == doc.keys # {}

containsKey(doc, key) == key \in doc.keys

\* Mutant: the check for the "payload" key is left out.
validateJsonPayload_ParseOnly(jsonPayload) ==
    IF jsonPayload = EmptyString THEN FALSE
    ELSE ~deserializeJson(jsonPayload).error

validateJsonPayload(jsonPayload) ==
    IF jsonPayload = EmptyString THEN FALSE
    ELSE LET testDoc == deserializeJson(jsonPayload)
         IN IF testDoc.error THEN FALSE
            ELSE IF ~containsKey(testDoc, "p") THEN FALSE
            ELSE TRUE

----------------------------------------------------------------------------
(* The state a call works on: the object's fields, the link, the clock,    *)
(* the MicroSafariResponse under construction, the value returned, and     *)
(* what the call did: ev, the events on the network layer and on the HTTP  *)
(* handle; posts, one entry per POST (the endpoint, whether the body sent   *)
(* has the wrapper key, the code it got, when it returned); delays, the    *)
(* waits;                                                                  *)
(* recorded, the value of the failure counter after every call of          *)
(* handleConnectionFailure; snapshot, what a diagnostics call returned.    *)
(* call keeps this of the last public call until the caller has taken the  *)
(* result, with the name of the call and the document it was given.        *)

NoResponse == [httpCode |-> 0, success |-> FALSE, errorMessage |-> EmptyString]

NoCall ==
    [op |-> "none", arg |-> <<>>, ret |-> FALSE, response |-> NoResponse,
     ev |-> <<>>, posts |-> <<>>, delays |-> <<>>, recorded |-> <<>>,
     snapshot |-> <<>>]

Enter ==
    [status |-> status,
     lastConnectionAttempt |-> lastConnectionAttempt,
     lastHeartbeat |-> lastHeartbeat,
     consecutiveFailures |-> consecutiveFailures,
     lastErrorTime |-> lastErrorTime,
     lastErrorMessage |-> lastErrorMessage,
     wifi |-> wifi,
     now |-> now,
     ret |-> FALSE,
     response |-> NoResponse,
     endpoint |-> "",
     ev |-> <<>>, posts |-> <<>>, delays |-> <<>>, recorded |-> <<>>]

Return(w, op, arg) ==
    /\ w.now <= MaxTime
    /\ status' = w.status
    /\ lastConnectionAttempt' = w.lastConnectionAttempt
    /\ lastHeartbeat' = w.lastHeartbeat
    /\ consecutiveFailures' = w.consecutiveFailures
    /\ lastErrorTime' = w.lastErrorTime
    /\ lastErrorMessage' = w.lastErrorMessage
    /\ wifi' = w.wifi
    /\ now' = w.now
    /\ call' = [op |-> op, arg |-> arg, ret |-> w.ret, response |-> w.response,
                ev |-> w.ev, posts |-> w.posts, delays |-> w.delays,
                recorded |-> w.recorded, snapshot |-> <<>>]
    /\ contacted' = (contacted \/ \E i \in 1..Len(w.posts) :
                                      w.posts[i].code \in {200, 201})
    /\ UNCHANGED <<config, simple, network>>

delay(w, ms) ==
    [w EXCEPT !.now = @ + ms, !.delays = Append(@, ms), !.ev = Append(@, "delay")]

isWiFiConnected(w) == w.wifi

----------------------------------------------------------------------------
(* FailureTracker and reset *)

\* Mutant: the reset forgets the time of the last contact too.
resetConnectionState_ForgetsContact(w) ==
    [w EXCEPT !.wifi = FALSE,
              !.ev = Append(@, "reset"),
              !.status = DISCONNECTED,
              !.consecutiveFailures = 0,
              !.lastConnectionAttempt = 0,
              !.lastHeartbeat = 0]

\* Mutant: the reset leaves the failure counter as it is.
resetConnectionState_KeepsCount(w) ==
    [w EXCEPT !.wifi = FALSE,
              !.ev = Append(@, "reset"),
              !.status = DISCONNECTED,
              !.lastConnectionAttempt = 0]

resetConnectionState(w) ==
    [w EXCEPT !.wifi = FALSE,
              !.ev = Append(@, "reset"),
              !.status = DISCONNECTED,
              !.consecutiveFailures = 0,
              !.lastConnectionAttempt = 0]

\* Mutant: the threshold is compared with > instead of >=.
handleConnectionFailure_Late(w, errorMessage) ==
    LET w1 == [w EXCEPT !.consecutiveFailures = @ + 1,
                        !.lastErrorTime = w.now,
                        !.lastErrorMessage = errorMessage,
                        !.recorded = Append(@, w.consecutiveFailures + 1)]
    IN IF w1.consecutiveFailures > maxConsecutiveFailures
       THEN resetConnectionState(w1)
       ELSE w1

\* Mutant: a failure below the threshold sets the status to MICROSAFARI_ERROR.
handleConnectionFailure_SetsError(w, errorMessage) ==
    LET w1 == [w EXCEPT !.consecutiveFailures = @ + 1,
                        !.lastErrorTime = w.now,
                        !.lastErrorMessage = errorMessage,
                        !.recorded = Append(@, w.consecutiveFailures + 1)]
    IN IF w1.consecutiveFailures >= maxConsecutiveFailures
       THEN resetConnectionState(w1)
       ELSE [w1 EXCEPT !.status = ERROR]

handleConnectionFailure(w, errorMessage) ==
    LET w1 == [w EXCEPT !.consecutiveFailures = @ + 1,
                        !.lastErrorTime = w.now,
                        !.lastErrorMessage = errorMessage,
                        !.recorded = Append(@, w.consecutiveFailures + 1)]
    IN IF w1.consecutiveFailures >= maxConsecutiveFailures
       THEN resetConnectionState(w1)
       ELSE w1

clearErrors(w) ==
    [w EXCEPT !.consecutiveFailures = 0,
              !.lastErrorTime = 0,
              !.lastErrorMessage = EmptyString]

----------------------------------------------------------------------------
(* ConnectionSupervisor: association *)

\* What the network layer can answer to WiFi.begin(): the link is up at once
\* or at the end of the wait, or it is still down when the timeout elapses.
Associations(timeout) ==
    {[up |-> TRUE, waited |-> 0], [up |-> TRUE, waited |-> timeout],
     [up |-> FALSE, waited |-> timeout]}

\* Mutant: the status of a failed attempt is set after the failure is recorded.
connectWiFi_ErrorLast(w, timeout) ==
    LET w1 == [w EXCEPT !.status = WIFI_CONNECTING,
                        !.lastConnectionAttempt = w.now,
                        !.ev = Append(@, "begin")]
    IN { LET w2 == [w1 EXCEPT !.now = @ + a.waited, !.wifi = a.up]
         IN IF w2.wifi
            THEN [w2 EXCEPT !.status = WIFI_CONNECTED,
                            !.consecutiveFailures = 0,
                            !.ret = TRUE]
            ELSE [handleConnectionFailure([w2 EXCEPT !.ev = Append(@, "timeout")],
                                          WiFiFailedMsg)
                     EXCEPT !.status = ERROR, !.ret = FALSE]
         : a \in Associations(timeout) }

\* Mutant: a failed attempt does not set the status to MICROSAFARI_ERROR.
connectWiFi_StaysConnecting(w, timeout) ==
    LET w1 == [w EXCEPT !.status = WIFI_CONNECTING,
                        !.lastConnectionAttempt = w.now,
                        !.ev = Append(@, "begin")]
    IN { LET w2 == [w1 EXCEPT !.now = @ + a.waited, !.wifi = a.up]
         IN IF w2.wifi
            THEN [w2 EXCEPT !.status = WIFI_CONNECTED,
                            !.consecutiveFailures = 0,
                            !.ret = TRUE]
            ELSE [handleConnectionFailure([w2 EXCEPT !.ev = Append(@, "timeout")],
                                          WiFiFailedMsg)
                     EXCEPT !.ret = FALSE]
         : a \in Associations(timeout) }

connectWiFi(w, timeout) ==
    LET w1 == [w EXCEPT !.status = WIFI_CONNECTING,
                        !.lastConnectionAttempt = w.now,
                        !.ev = Append(@, "begin")]
    IN { LET w2 == [w1 EXCEPT !.now = @ + a.waited, !.wifi = a.up]
         IN IF w2.wifi
            THEN [w2 EXCEPT !.status = WIFI_CONNECTED,
                            !.consecutiveFailures = 0,
                            !.ret = TRUE]
            ELSE [handleConnectionFailure([w2 EXCEPT !.status = ERROR,
                                                     !.ev = Append(@, "timeout")],
                                          WiFiFailedMsg)
                     EXCEPT !.ret = FALSE]
         : a \in Associations(timeout) }

\* Mutant: disconnect() goes through the reset.
disconnect_Resets(w) ==
    resetConnectionState([w EXCEPT !.ev = @ \o <<"close", "disconnect">>])

disconnect(w) ==
    [w EXCEPT !.ev = @ \o <<"close", "disconnect">>,
              !.wifi = FALSE,
              !.status = DISCONNECTED]

----------------------------------------------------------------------------
(* RequestEngine *)

\* How long one POST blocks.
Durations == {0}

\* The body as the ingestion endpoint reads it.
hasWrapper(payload) ==
    LET doc == deserializeJson(payload)
    IN ~doc.error /\ containsKey(doc, "p")

\* Mutant: the error is classified 503 when any attempt was answered 503.
allRetriesExhausted_AnyCode(w) ==
    LET msg == IF \E i \in 1..Len(w.posts) : w.posts[i].code = 503
               THEN ServiceUnavailableMsg
               ELSE IF w.response.httpCode <= 0 THEN NetworkErrorMsg
               ELSE ServerErrorMsg(w.response.httpCode)
    IN handleConnectionFailure([w EXCEPT !.response.errorMessage = msg], msg)

\* Mutant: nothing is recorded when no attempt was made.
allRetriesExhausted_OnlyAfterAttempt(w) ==
    LET msg == IF w.response.httpCode = 503 THEN ServiceUnavailableMsg
               ELSE IF w.response.httpCode <= 0 THEN NetworkErrorMsg
               ELSE ServerErrorMsg(w.response.httpCode)
    IN IF w.posts = <<>>
       THEN [w EXCEPT !.response.errorMessage = msg]
       ELSE handleConnectionFailure([w EXCEPT !.response.errorMessage = msg], msg)

allRetriesExhausted(w) ==
    LET msg == IF w.response.httpCode = 503 THEN ServiceUnavailableMsg
               ELSE IF w.response.httpCode <= 0 THEN NetworkErrorMsg
               ELSE ServerErrorMsg(w.response.httpCode)
    IN handleConnectionFailure([w EXCEPT !.response.errorMessage = msg], msg)

\* Mutant: the loop waits after the last attempt too.
retryWait_AfterLast(attempts) == attempts <= maxRetries

\* Whether the loop waits after a failed attempt.
retryWait(attempts) == attempts < maxRetries

\* Mutant: 401 is retried like a server error.
classify_RetryAuth(httpCode) ==
    IF httpCode = 201 \/ httpCode = 200 THEN "success"
    ELSE IF httpCode = 400 THEN "bad"
    ELSE "retry"

\* Mutant: only 201 counts as success (as in validateResponse).
classify_Only201(httpCode) ==
    IF httpCode = 201 THEN "success"
    ELSE IF httpCode = 401 THEN "auth"
    ELSE IF httpCode = 400 THEN "bad"
    ELSE "retry"

\* Mutant: 400 is retried like a server error.
classify_RetryBadRequest(httpCode) ==
    IF httpCode = 201 \/ httpCode = 200 THEN "success"
    ELSE IF httpCode = 401 THEN "auth"
    ELSE "retry"

\* Mutant: every code from 200 to 399 counts as success.
classify_AcceptsRedirects(httpCode) ==
    IF httpCode >= 200 /\ httpCode < 400 THEN "success"
    ELSE IF httpCode = 401 THEN "auth"
    ELSE IF httpCode = 400 THEN "bad"
    ELSE "retry"

\* What the loop does with the code of an attempt.
classify(httpCode) ==
    IF httpCode = 201 \/ httpCode = 200 THEN "success"
    ELSE IF httpCode = 401 THEN "auth"
    ELSE IF httpCode = 400 THEN "bad"
    ELSE "retry"

\* One pass through the body of the while loop, the POST answering code
\* after took: the state, and whether the function returns there.
attempt(w, wrapped, code, took, n) ==
    LET w1 == [w EXCEPT !.ev = @ \o <<"open", "post", "close">>,
                        !.now = @ + took,
                        !.posts = Append(@, [endpoint |-> w.endpoint,
                                             wrapped |-> wrapped,
                                             code |-> code,
                                             at |-> w.now + took]),
                        !.response.httpCode = code]
        class == classify(w1.response.httpCode)
    IN IF class = "success"
       THEN [done |-> TRUE,
             w |-> [w1 EXCEPT !.response.success = TRUE,
                              !.lastHeartbeat = w1.now]]
       ELSE IF class = "auth"
       THEN [done |-> TRUE,
             w |-> [w1 EXCEPT !.response.errorMessage = AuthFailedMsg]]
       ELSE IF class = "bad"
       THEN [done |-> TRUE,
             w |-> [w1 EXCEPT !.response.errorMessage = InvalidDataMsg]]
       ELSE [done |-> FALSE,
             w |-> IF retryWait(n) THEN delay(w1, retryDelay) ELSE w1]

\* Mutant: the loop runs while attempts <= _maxRetries.
RECURSIVE httpAttempts_OneMore(_, _, _)
httpAttempts_OneMore(w, wrapped, attempts) ==
    IF ~(attempts <= maxRetries) THEN {allRetriesExhausted(w)}
    ELSE UNION { LET r == attempt(w, wrapped, code, took, attempts + 1)
                 IN IF r.done THEN {r.w}
                    ELSE httpAttempts_OneMore(r.w, wrapped, attempts + 1)
                 : code \in Codes, took \in Durations }

RECURSIVE httpAttempts(_, _, _)
httpAttempts(w, wrapped, attempts) ==
    IF ~(attempts < maxRetries) THEN {allRetriesExhausted(w)}
    ELSE UNION { LET r == attempt(w, wrapped, code, took, attempts + 1)
                 IN IF r.done THEN {r.w}
                    ELSE httpAttempts(r.w, wrapped, attempts + 1)
                 : code \in Codes, took \in Durations }

\* Mutant: the request loop is entered without the check of the link.
performHttpRequest_NoLinkCheck(w, endpoint, payload) ==
    httpAttempts([w EXCEPT !.response = NoResponse, !.endpoint = endpoint],
                 hasWrapper(payload), 0)

performHttpRequest(w, endpoint, payload) ==
    LET w0 == [w EXCEPT !.response = NoResponse, !.endpoint = endpoint]
    IN IF ~isWiFiConnected(w0)
       THEN {[w0 EXCEPT !.response.errorMessage = WiFiNotConnectedMsg]}
       ELSE httpAttempts(w0, hasWrapper(payload), 0)

----------------------------------------------------------------------------
(* Data sends, heartbeat, connectivity tests *)

\* doc["payload"] = data
wrapPayload(data) == Obj(<<<<"p", data>>>>)

invalidPayload(w) ==
    [w EXCEPT !.response = [httpCode |-> 0, success |-> FALSE,
                            errorMessage |-> InvalidPayloadMsg]]

sendSensorData(w, sensorData) ==
    LET jsonString == serializeJson(wrapPayload(sensorData))
    IN IF ~validateJsonPayload(jsonString)
       THEN {invalidPayload(w)}
       ELSE performHttpRequest(w, IngestEndpoint, jsonString)

\* Mutant: the document is sent without being validated.
sendRawData_NoValidate(w, jsonPayload) ==
    performHttpRequest(w, IngestEndpoint, jsonPayload)

sendRawData(w, jsonPayload) ==
    IF ~validateJsonPayload(jsonPayload)
    THEN {invalidPayload(w)}
    ELSE performHttpRequest(w, IngestEndpoint, jsonPayload)

\* temperature and humidity always, soil_moisture and light_level unless -1,
\* then timestamp and device_name.
sensorReadings(withSoil, withLight) ==
    Obj(<<<<"k", Str("k")>>, <<"k", Str("k")>>>>
        \o (IF withSoil THEN <<<<"k", Str("k")>>>> ELSE <<>>)
        \o (IF withLight THEN <<<<"k", Str("k")>>>> ELSE <<>>)
        \o <<<<"k", Str("k")>>, <<"k", Str("k")>>>>)

sendSensorValues(w, withSoil, withLight) ==
    sendSensorData(w, sensorReadings(withSoil, withLight))

\* heartbeat, timestamp, device_name, signal_strength, free_heap, uptime
heartbeatData ==
    Obj(<<<<"k", Str("k")>>, <<"k", Str("k")>>, <<"k", Str("k")>>,
          <<"k", Str("k")>>, <<"k", Str("k")>>, <<"k", Str("k")>>>>)

sendHeartbeat(w) ==
    LET jsonString == serializeJson(wrapPayload(heartbeatData))
    IN { [w1 EXCEPT !.ret = w1.response.success]
         : w1 \in performHttpRequest(w, IngestEndpoint, jsonString) }

forceHeartbeat(w) == sendHeartbeat(w)

\* Mutant: the heartbeat is due as soon as the interval has elapsed.
needsHeartbeat_AtInterval(w) ==
    Elapsed(w.now, w.lastHeartbeat) >= heartbeatInterval

needsHeartbeat(w) == Elapsed(w.now, w.lastHeartbeat) > heartbeatInterval

isPlatformActive(w) ==
    IF ~isWiFiConnected(w) THEN FALSE
    ELSE Elapsed(w.now, w.lastHeartbeat) < (heartbeatInterval * 2) % ClockMod

\* test, timestamp, device
testData == Obj(<<<<"k", Str("k")>>, <<"k", Str("k")>>, <<"k", Str("k")>>>>)

testConnection(w) ==
    IF ~isWiFiConnected(w) THEN {[w EXCEPT !.ret = FALSE]}
    ELSE { IF w1.response.success
           THEN [w1 EXCEPT !.status = PLATFORM_CONNECTED, !.ret = TRUE]
           ELSE [w1 EXCEPT !.ret = FALSE]
           : w1 \in sendSensorData(w, testData) }

\* Mutant: the test of the gateway is left out.
runConnectivityTest_IgnoresGateway(w, gateway) ==
    IF ~isWiFiConnected(w) THEN {[w EXCEPT !.ret = FALSE]}
    ELSE { IF ~w1.ret THEN [w1 EXCEPT !.ret = FALSE]
           ELSE [clearErrors(w1) EXCEPT !.ret = TRUE]
           : w1 \in testConnection(w) }

\* gateway: WiFi.gatewayIP() is not 0.0.0.0
runConnectivityTest(w, gateway) ==
    IF ~isWiFiConnected(w) THEN {[w EXCEPT !.ret = FALSE]}
    ELSE IF ~gateway THEN {[w EXCEPT !.ret = FALSE]}
    ELSE LET testJson ==
                 serializeJson(Obj(<<<<"p", Obj(<<<<"k", Str("k")>>>>)>>>>))
         IN { IF ~w1.ret THEN [w1 EXCEPT !.ret = FALSE]
              ELSE IF ~validateJsonPayload(testJson) THEN [w1 EXCEPT !.ret = FALSE]
              ELSE [clearErrors(w1) EXCEPT !.ret = TRUE]
              : w1 \in testConnection(w) }

----------------------------------------------------------------------------
(* loop(), one stage per statement of the function *)

reconnectStage(w) ==
    IF ~isWiFiConnected(w) /\ w.status # WIFI_CONNECTING
    THEN IF Elapsed(w.now, w.lastConnectionAttempt) > ReconnectBase
         THEN connectWiFi(w, connectionTimeout)
         ELSE {w}
    ELSE {w}

updateStatus(w) ==
    IF isWiFiConnected(w) /\ w.status = WIFI_CONNECTING
    THEN [w EXCEPT !.status = WIFI_CONNECTED]
    ELSE IF ~isWiFiConnected(w) /\ w.status # WIFI_CONNECTING
    THEN [w EXCEPT !.status = DISCONNECTED]
    ELSE w

\* Mutant: the heartbeat is sent whenever the link is up.
heartbeatStage_Always(w) ==
    IF isWiFiConnected(w)
    THEN { IF ~w1.ret
           THEN handleConnectionFailure(w1, HeartbeatFailedMsg)
           ELSE IF w1.consecutiveFailures > 0
                THEN [w1 EXCEPT !.consecutiveFailures = 0]
                ELSE w1
           : w1 \in sendHeartbeat(w) }
    ELSE {w}

heartbeatStage(w) ==
    IF isWiFiConnected(w) /\ needsHeartbeat(w)
    THEN { IF ~w1.ret
           THEN handleConnectionFailure(w1, HeartbeatFailedMsg)
           ELSE IF w1.consecutiveFailures > 0
                THEN [w1 EXCEPT !.consecutiveFailures = 0]
                ELSE w1
           : w1 \in sendHeartbeat(w) }
    ELSE {w}

autoReconnectStage(w) ==
    IF autoReconnect /\ ~isWiFiConnected(w) /\ w.status = DISCONNECTED
    THEN IF Elapsed(w.now, w.lastConnectionAttempt)
               > ReconnectBase + (w.consecutiveFailures * ReconnectStep)
         THEN connectWiFi(w, connectionTimeout)
         ELSE {w}
    ELSE {w}

loop(w) ==
    LET s1 == reconnectStage(w)
        s2 == {updateStatus(w1) : w1 \in s1}
        s3 == UNION {heartbeatStage(w2) : w2 \in s2}
        s4 == UNION {autoReconnectStage(w3) : w3 \in s3}
    IN {[w4 EXCEPT !.ret = FALSE] : w4 \in s4}

----------------------------------------------------------------------------
(* Inputs of the calls *)

\* Raw documents a caller passes to sendRawData: empty, wrapped, wrapped with
\* more keys, without the wrapper, a bare string, cut short.
RawDocuments ==
    { <<>>,
      <<"{", "p", ":", "{", "}", "}">>,
      <<"{", "k", ":", "k", ",", "p", ":", "k", "}">>,
      <<"{", "k", ":", "p", "}">>,
      <<"p">>,
      <<"{", "p", ":", "{", "}">> }

\* Objects a caller passes to sendSensorData(const JsonObject&).
SensorObjects ==
    { Obj(<<>>), Obj(<<<<"k", Str("k")>>>>), Obj(<<<<"p", Str("k")>>>>) }

----------------------------------------------------------------------------
(* The state after construction and configuration through the setters *)

InitDevice ==
    /\ status = DISCONNECTED
    /\ lastConnectionAttempt = 0
    /\ connectionTimeout = 1
    /\ maxRetries \in 1..MaxRetriesCfg
    /\ retryDelay = 1
    /\ lastHeartbeat = 0
    /\ heartbeatInterval = 1
    /\ consecutiveFailures = 0
    /\ maxConsecutiveFailures \in 1..MaxFailuresCfg
    /\ lastErrorTime = 0
    /\ lastErrorMessage = EmptyString
    /\ autoReconnect = TRUE
    /\ wifi = FALSE
    /\ now = 0
    /\ call = NoCall
    /\ contacted = FALSE
    /\ available = FALSE
    /\ joining = FALSE

Init ==
    /\ InitDevice
    /\ initialized = FALSE
    /\ wifiSSID = ""
    /\ wifiPassword = ""
    /\ apiKey = ""
    /\ platformURL = ""
    /\ deviceName = ""
    /\ lastReconnectAttempt = 0

----------------------------------------------------------------------------
(* Public calls *)

DoConnectWiFi ==
    /\ call = NoCall
    /\ \E w \in connectWiFi(Enter, connectionTimeout) : Return(w, "connectWiFi", <<>>)

DoSendRawData ==
    /\ call = NoCall
    /\ \E jsonPayload \in RawDocuments :
           \E w \in sendRawData(Enter, jsonPayload) : Return(w, "sendRawData", jsonPayload)

DoSendSensorData ==
    /\ call = NoCall
    /\ \E sensorData \in SensorObjects :
           \E w \in sendSensorData(Enter, sensorData) : Return(w, "sendSensorData", <<>>)

DoSendSensorValues ==
    /\ call = NoCall
    /\ \E withSoil \in BOOLEAN, withLight \in BOOLEAN :
           \E w \in sendSensorValues(Enter, withSoil, withLight) :
               Return(w, "sendSensorValues", <<>>)

DoForceHeartbeat ==
    /\ call = NoCall
    /\ \E w \in forceHeartbeat(Enter) : Return(w, "forceHeartbeat", <<>>)

DoTestConnection ==
    /\ call = NoCall
    /\ \E w \in testConnection(Enter) : Return(w, "testConnection", <<>>)

DoRunConnectivityTest ==
    /\ call = NoCall
    /\ \E gateway \in BOOLEAN :
           \E w \in runConnectivityTest(Enter, gateway) :
               Return(w, "runConnectivityTest", <<gateway>>)

DoLoop ==
    /\ call = NoCall
    /\ \E w \in loop(Enter) : Return(w, "loop", <<>>)

DoDisconnect ==
    /\ call = NoCall
    /\ Return(disconnect(Enter), "disconnect", <<>>)

DoClearErrors ==
    /\ call = NoCall
    /\ Return(clearErrors(Enter), "clearErrors", <<>>)

----------------------------------------------------------------------------
(* The environment between calls *)

Tick ==
    /\ call = NoCall
    /\ now < MaxTime
    /\ now' = now + 1
    /\ UNCHANGED <<device, config, simple, network, wifi, call, contacted>>

LinkUp ==
    /\ call = NoCall
    /\ ~wifi
    /\ wifi' = TRUE
    /\ UNCHANGED <<device, config, simple, network, now, call, contacted>>

LinkDown ==
    /\ call = NoCall
    /\ wifi
    /\ wifi' = FALSE
    /\ UNCHANGED <<device, config, simple, network, now, call, contacted>>

\* The caller has taken the result of the call.
Idle ==
    /\ call # NoCall
    /\ call' = NoCall
    /\ UNCHANGED <<device, config, simple, network, wifi, now, contacted>>

Next ==
    \/ DoConnectWiFi
    \/ DoSendRawData
    \/ DoSendSensorData
    \/ DoSendSensorValues
    \/ DoForceHeartbeat
    \/ DoTestConnection
    \/ DoRunConnectivityTest
    \/ DoLoop
    \/ DoDisconnect
    \/ DoClearErrors
    \/ Tick
    \/ LinkUp
    \/ LinkDown
    \/ Idle

Spec == Init /\ [][Next]_vars

----------------------------------------------------------------------------
(* validateJsonPayload on its own: the caller hands it any text of at most *)
(* MaxDocLen tokens.                                                       *)

Documents == UNION {[1..n -> Tokens] : n \in 0..MaxDocLen}

InitValidate == Init /\ maxRetries = 1 /\ maxConsecutiveFailures = 1

DoValidate ==
    /\ call = NoCall
    /\ \E jsonPayload \in Documents :
           call' = [NoCall EXCEPT !.op = "validateJsonPayload",
                                  !.arg = jsonPayload,
                                  !.ret = validateJsonPayload(jsonPayload)]
    /\ UNCHANGED <<device, config, simple, network, wifi, now, contacted>>

NextValidate ==
    \/ DoValidate
    \/ Idle

SpecValidate == InitValidate /\ [][NextValidate]_vars

----------------------------------------------------------------------------
(* Diagnostics.  Ages and the uptime are printed in seconds, one unit of    *)
(* time being 10 s.  The values the host alone decides (signal strength,   *)
(* addresses, free heap) are left out of the reports.                      *)

getStatus(w) == w.status

getStatusString(w) ==
    IF w.status = DISCONNECTED THEN "Disconnected"
    ELSE IF w.status = WIFI_CONNECTING THEN "WiFi Connecting"
    ELSE IF w.status = WIFI_CONNECTED THEN "WiFi Connected"
    ELSE IF w.status = PLATFORM_CONNECTED THEN "Platform Connected"
    ELSE IF w.status = ERROR THEN "Error"
    ELSE "Unknown"

getLastError(w) ==
    IF w.lastErrorMessage = EmptyString
    THEN <<"No errors recorded">>
    ELSE <<"[", Elapsed(w.now, w.lastErrorTime) * 10, "s ago] ">>
         \o w.lastErrorMessage

getConnectionDiagnostics(w) ==
    << "Status: ", getStatusString(w),
       "Platform Active: ", IF isPlatformActive(w) THEN "Yes" ELSE "No",
       "Consecutive Failures: ", w.consecutiveFailures, "/", maxConsecutiveFailures,
       "Last Heartbeat: ", Elapsed(w.now, w.lastHeartbeat) * 10,
       "Auto-reconnect: ", IF autoReconnect THEN "Enabled" ELSE "Disabled",
       "Uptime: ", w.now * 10 >>
    \o (IF isWiFiConnected(w) THEN <<"WiFi Diagnostics:">> ELSE <<>>)
    \o (IF w.lastErrorMessage # EmptyString
        THEN <<"Last Error: ">> \o w.lastErrorMessage
             \o <<"Error Time: ", Elapsed(w.now, w.lastErrorTime) * 10>>
        ELSE <<>>)

\* What getDetailedStatus() writes into its local DynamicJsonDocument.
detailedStatusDocument(w) ==
    << "status", getStatusString(w),
       "wifi_connected", isWiFiConnected(w),
       "platform_active", isPlatformActive(w),
       "consecutive_failures", w.consecutiveFailures,
       "max_failures", maxConsecutiveFailures,
       "auto_reconnect", autoReconnect,
       "last_heartbeat", w.lastHeartbeat,
       "heartbeat_interval", heartbeatInterval,
       "uptime_seconds", w.now * 10 >>
    \o (IF w.lastErrorMessage # EmptyString
        THEN <<"last_error">> \o w.lastErrorMessage
             \o <<"error_time", w.lastErrorTime>>
        ELSE <<>>)

\* What a read through a JsonObject finds once its document is destroyed:
\* the memory is not yet reused, or it holds something else.
Freed(document) == {document, <<"memory reused">>}

\* The JsonObject returned refers to the pool of the local document, destroyed
\* when the function returns: the caller reads freed memory.
getDetailedStatus(w) == Freed(detailedStatusDocument(w))

DiagnosticOps ==
    {"getConnectionDiagnostics", "getDetailedStatus", "getLastError",
     "getStatus", "isPlatformActive"}

\* A diagnostics call may follow a diagnostics call at once.
Reported(op, content) ==
    /\ call.op \in {"none"} \cup DiagnosticOps
    /\ call' = [NoCall EXCEPT !.op = op, !.snapshot = content]
    /\ UNCHANGED <<device, config, simple, network, wifi, now, contacted>>

DoGetConnectionDiagnostics ==
    Reported("getConnectionDiagnostics", getConnectionDiagnostics(Enter))

DoGetDetailedStatus ==
    \E content \in getDetailedStatus(Enter) : Reported("getDetailedStatus", content)

DoGetLastError == Reported("getLastError", getLastError(Enter))

DoGetStatus == Reported("getStatus", <<getStatus(Enter)>>)

DoIsPlatformActive == Reported("isPlatformActive", <<isPlatformActive(Enter)>>)

----------------------------------------------------------------------------
(* The calls with the setters and the diagnostics among them, one attempt  *)
(* per submission.                                                         *)

InitSupervisor == Init /\ maxRetries = 1

DoSetAutoReconnect ==
    /\ call = NoCall
    /\ \E enable \in BOOLEAN :
           /\ autoReconnect' = enable
           /\ call' = [NoCall EXCEPT !.op = "setAutoReconnect"]
    /\ UNCHANGED <<device, simple, network, wifi, now, contacted>>
    /\ UNCHANGED <<connectionTimeout, maxRetries, retryDelay, heartbeatInterval,
                   maxConsecutiveFailures>>

DoSetMaxConsecutiveFailures ==
    /\ call = NoCall
    /\ \E maxFailures \in 1..MaxFailuresCfg :
           /\ maxConsecutiveFailures' = maxFailures
           /\ call' = [NoCall EXCEPT !.op = "setMaxConsecutiveFailures"]
    /\ UNCHANGED <<device, simple, network, wifi, now, contacted>>
    /\ UNCHANGED <<connectionTimeout, maxRetries, retryDelay, heartbeatInterval,
                   autoReconnect>>

NextSupervisor ==
    \/ Next
    \/ DoSetAutoReconnect
    \/ DoSetMaxConsecutiveFailures
    \/ DoGetConnectionDiagnostics
    \/ DoGetDetailedStatus
    \/ DoGetLastError
    \/ DoGetStatus
    \/ DoIsPlatformActive

SpecSupervisor == InitSupervisor /\ [][NextSupervisor]_vars

----------------------------------------------------------------------------
(* The simplified variant: class MicroSafari of src/src/MicroSafari.cpp.   *)
(* It keeps no status, no failure record and no heartbeat time; its fields *)
(* are initialized and the five strings stored by begin(), and loop() has  *)
(* the static lastReconnectAttempt.  The waits inside a call are shorter   *)
(* than one unit of time: they are logged in ms and leave the clock.       *)

SimpleMaxAttempts == 2
SimpleRetryStep == 500
SimpleReconnectWindow == 3
SimpleConnectWait == 3

SimpleCodes == {200, 204, 302, 399, 400, 500, -1}

NotInitializedMsg == <<"Library not initialized">>
HttpErrorMsg(code) == <<"HTTP ", ToString(code), ": ">>
NetworkErrorAfterMsg ==
    <<"Network error after ", ToString(SimpleMaxAttempts), " attempts">>

\* MicroSafariResponse response; the struct gives httpCode and success no
\* initial value, so they are indeterminate until assigned.
Indeterminate ==
    [httpCode : {0, 200}, success : BOOLEAN, errorMessage : {EmptyString}]

SSIDs == {"", "a", "b"}
Texts == {"", "a"}

SimpleEnter ==
    [initialized |-> initialized,
     wifiSSID |-> wifiSSID,
     wifiPassword |-> wifiPassword,
     apiKey |-> apiKey,
     platformURL |-> platformURL,
     deviceName |-> deviceName,
     lastReconnectAttempt |-> lastReconnectAttempt,
     wifi |-> wifi,
     now |-> now,
     ret |-> FALSE,
     response |-> NoResponse,
     ev |-> <<>>, posts |-> <<>>, delays |-> <<>>]

SimpleReturn(w, op, arg) ==
    /\ w.now <= MaxTime
    /\ initialized' = w.initialized
    /\ wifiSSID' = w.wifiSSID
    /\ wifiPassword' = w.wifiPassword
    /\ apiKey' = w.apiKey
    /\ platformURL' = w.platformURL
    /\ deviceName' = w.deviceName
    /\ lastReconnectAttempt' = w.lastReconnectAttempt
    /\ wifi' = w.wifi
    /\ now' = w.now
    /\ call' = [op |-> op, arg |-> arg, ret |-> w.ret, response |-> w.response,
                ev |-> w.ev, posts |-> w.posts, delays |-> w.delays,
                recorded |-> <<>>, snapshot |-> <<>>]
    /\ UNCHANGED <<device, config, contacted, network>>

simpleDelay(w, ms) ==
    [w EXCEPT !.delays = Append(@, ms), !.ev = Append(@, "delay")]

simpleBegin(w, ssid, password, key, url, name) ==
    LET w1 == [w EXCEPT !.wifiSSID = ssid,
                        !.wifiPassword = password,
                        !.apiKey = key,
                        !.platformURL = url,
                        !.deviceName = name]
    IN IF w1.wifiSSID = "" \/ w1.wifiPassword = "" \/ w1.apiKey = ""
          \/ w1.platformURL = ""
       THEN [w1 EXCEPT !.ret = FALSE]
       ELSE [w1 EXCEPT !.ev = Append(@, "mode"),
                       !.initialized = TRUE,
                       !.ret = TRUE]

\* WiFi.begin() and the loop of at most 30 polls one second apart: the link
\* is up at once, after 10 s, after 30 s, or still down after 30 s.
SimpleAssociations ==
    {[up |-> TRUE, waited |-> 0], [up |-> TRUE, waited |-> 1],
     [up |-> TRUE, waited |-> SimpleConnectWait],
     [up |-> FALSE, waited |-> SimpleConnectWait]}

simpleConnectWiFi(w) ==
    IF ~w.initialized THEN {[w EXCEPT !.ret = FALSE]}
    ELSE LET w1 == IF w.wifi
                   THEN simpleDelay([w EXCEPT !.wifi = FALSE,
                                              !.ev = Append(@, "disconnect")],
                                    100)
                   ELSE w
             w2 == [w1 EXCEPT !.ev = Append(@, "begin")]
         IN {[w2 EXCEPT !.now = @ + a.waited, !.wifi = a.up, !.ret = a.up]
                : a \in SimpleAssociations}

simplePost(w, payload, code) ==
    [w EXCEPT !.ev = Append(@, "post"),
              !.posts = Append(@, [endpoint |-> IngestEndpoint,
                                   wrapped |-> hasWrapper(payload),
                                   code |-> code,
                                   at |-> w.now])]

\* {"payload":{"test":true,"timestamp":...,"device":"..."}}
simpleTestPayload ==
    <<"{", "p", ":", "{", "k", ":", "k", ",", "k", ":", "k", ",",
      "k", ":", "k", "}", "}">>

simpleTestConnection(w) ==
    IF ~isWiFiConnected(w) THEN {[w EXCEPT !.ret = FALSE]}
    ELSE { LET w1 == [w EXCEPT !.ev = Append(@, "open")]
               w2 == simplePost(w1, simpleTestPayload, httpCode)
               w3 == [w2 EXCEPT !.ev = Append(@, "close")]
           IN IF httpCode > 0
              THEN IF httpCode >= 200 /\ httpCode < 400
                   THEN [w3 EXCEPT !.ret = TRUE]
                   ELSE [w3 EXCEPT !.ret = FALSE]
              ELSE [w3 EXCEPT !.ret = FALSE]
           : httpCode \in SimpleCodes }

\* doc.createNestedObject("payload") with temperature, humidity,
\* soil_moisture, light_level, timestamp and device_name.
createSensorDataPayload ==
    serializeJson(Obj(<<<<"p", Obj(<<<<"k", Str("k")>>, <<"k", Str("k")>>,
                                     <<"k", Str("k")>>, <<"k", Str("k")>>,
                                     <<"k", Str("k")>>, <<"k", Str("k")>>>>)>>>>))

\* Mutant: a server error is retried like a transport failure.
simpleRetried_ServerErrors(httpCode) == ~(httpCode > 0) \/ httpCode >= 500

\* The attempt is retried when the POST did not return an HTTP code.
simpleRetried(httpCode) == ~(httpCode > 0)

\* The body of the for loop from attempt on, on the handle opened before it.
RECURSIVE simpleAttempts(_, _, _)
simpleAttempts(w, payload, n) ==
    IF ~(n <= SimpleMaxAttempts)
    THEN {[w EXCEPT !.ev = Append(@, "close"),
                    !.response.success = FALSE,
                    !.response.errorMessage = NetworkErrorAfterMsg]}
    ELSE UNION {
        LET w1 == [simplePost(w, payload, httpCode)
                      EXCEPT !.response.httpCode = httpCode]
        IN IF ~simpleRetried(httpCode)
           THEN IF httpCode >= 200 /\ httpCode < 300
                THEN {[w1 EXCEPT !.response.success = TRUE,
                                 !.ev = Append(@, "close")]}
                ELSE IF httpCode >= 300 /\ httpCode < 400
                THEN {[w1 EXCEPT !.response.success = TRUE,
                                 !.ev = Append(@, "close")]}
                ELSE {[w1 EXCEPT !.response.success = FALSE,
                                 !.response.errorMessage = HttpErrorMsg(httpCode),
                                 !.ev = Append(@, "close")]}
           ELSE simpleAttempts(IF n < SimpleMaxAttempts
                               THEN simpleDelay(w1, SimpleRetryStep * n)
                               ELSE w1,
                               payload, n + 1)
        : httpCode \in SimpleCodes }

simpleSendSensorData(w) ==
    IF ~w.initialized
    THEN {[w EXCEPT !.response = [r EXCEPT !.errorMessage = NotInitializedMsg]]
             : r \in Indeterminate}
    ELSE IF ~isWiFiConnected(w)
    THEN {[w EXCEPT !.response = [r EXCEPT !.errorMessage = WiFiNotConnectedMsg]]
             : r \in Indeterminate}
    ELSE simpleAttempts([w EXCEPT !.ev = Append(@, "open")],
                        createSensorDataPayload, 1)

simpleLoop(w) ==
    IF ~isWiFiConnected(w)
    THEN IF Elapsed(w.now, w.lastReconnectAttempt) > SimpleReconnectWindow
         THEN {[w1 EXCEPT !.lastReconnectAttempt = w1.now, !.ret = FALSE]
                  : w1 \in simpleConnectWiFi(w)}
         ELSE {w}
    ELSE {w}

InitSimple == Init /\ maxRetries = 1 /\ maxConsecutiveFailures = 1

DoSimpleBegin ==
    /\ call = NoCall
    /\ \E ssid \in SSIDs, password \in Texts, key \in Texts, url \in Texts,
          name \in Texts :
           SimpleReturn(simpleBegin(SimpleEnter, ssid, password, key, url, name),
                        "begin", <<ssid, password, key, url, name>>)

DoSimpleConnectWiFi ==
    /\ call = NoCall
    /\ \E w \in simpleConnectWiFi(SimpleEnter) :
           SimpleReturn(w, "connectWiFi", <<>>)

DoSimpleTestConnection ==
    /\ call = NoCall
    /\ \E w \in simpleTestConnection(SimpleEnter) :
           SimpleReturn(w, "testConnection", <<>>)

DoSimpleSendSensorData ==
    /\ call = NoCall
    /\ \E w \in simpleSendSensorData(SimpleEnter) :
           SimpleReturn(w, "sendSensorData", <<>>)

DoSimpleLoop ==
    /\ call = NoCall
    /\ \E w \in simpleLoop(SimpleEnter) : SimpleReturn(w, "loop", <<>>)

NextSimple ==
    \/ DoSimpleBegin
    \/ DoSimpleConnectWiFi
    \/ DoSimpleTestConnection
    \/ DoSimpleSendSensorData
    \/ DoSimpleLoop
    \/ Tick
    \/ LinkUp
    \/ LinkDown
    \/ Idle

SpecSimple == InitSimple /\ [][NextSimple]_vars

----------------------------------------------------------------------------
(* setRetryConfig: the retry count is stored as it is given, 0 and         *)
(* negative values included.                                               *)

RetryDelays == {1, 2}

DoSetRetryConfig ==
    /\ call = NoCall
    /\ \E retries \in -1..MaxRetriesCfg, wait \in RetryDelays :
           /\ maxRetries' = retries
           /\ retryDelay' = wait
           /\ call' = [NoCall EXCEPT !.op = "setRetryConfig"]
    /\ UNCHANGED <<device, simple, network, wifi, now, contacted>>
    /\ UNCHANGED <<connectionTimeout, heartbeatInterval,
                   maxConsecutiveFailures, autoReconnect>>

NextRetryConfig ==
    \/ DoSetRetryConfig
    \/ DoSendRawData
    \/ DoForceHeartbeat
    \/ DoConnectWiFi
    \/ Tick
    \/ LinkUp
    \/ LinkDown
    \/ Idle

SpecRetryConfig == InitSupervisor /\ [][NextRetryConfig]_vars

----------------------------------------------------------------------------
(* The comparisons of ages on their own.  _lastHeartbeat and               *)
(* _lastConnectionAttempt have just been written with the value of         *)
(* millis(); then elapsed units of time pass, millis() counting modulo     *)
(* ClockMod, and needsHeartbeat(), isPlatformActive() and the two windows  *)
(* of loop() are evaluated.  call keeps elapsed and the four results.      *)

\* Values of millis() when the timestamps are written, heartbeat intervals
\* and ages: small ones, the ones around half of ClockMod, the largest.
Stamps == {0, 1, ClockMod \div 2, ClockMod - 2, ClockMod - 1}
Intervals == {1, 2, ClockMod \div 2, (ClockMod \div 2) + 1, ClockMod - 1}
Ages == {0, 1, 2, 3, 4, 5, ClockMod \div 2, (ClockMod \div 2) + 1,
         ClockMod - 2, ClockMod - 1}

InitClock ==
    /\ status = DISCONNECTED
    /\ now \in Stamps
    /\ lastConnectionAttempt = now
    /\ lastHeartbeat = now
    /\ connectionTimeout = 1
    /\ maxRetries = 1
    /\ retryDelay = 1
    /\ heartbeatInterval \in Intervals
    /\ maxConsecutiveFailures = MaxFailuresCfg
    /\ consecutiveFailures \in 0..(MaxFailuresCfg - 1)
    /\ lastErrorTime = 0
    /\ lastErrorMessage = EmptyString
    /\ autoReconnect = TRUE
    /\ wifi = FALSE
    /\ call = NoCall
    /\ contacted = FALSE
    /\ available = FALSE
    /\ joining = FALSE
    /\ initialized = FALSE
    /\ wifiSSID = ""
    /\ wifiPassword = ""
    /\ apiKey = ""
    /\ platformURL = ""
    /\ deviceName = ""
    /\ lastReconnectAttempt = 0

\* Whether the stage of loop() calls connectWiFi().
Attempts(worlds) ==
    \E w \in worlds : \E i \in 1..Len(w.ev) : w.ev[i] = "begin"

DoElapse ==
    /\ call = NoCall
    /\ now = lastHeartbeat
    /\ now = lastConnectionAttempt
    /\ \E elapsed \in Ages, up \in BOOLEAN :
           LET w == [Enter EXCEPT !.now = (@ + elapsed) % ClockMod,
                                  !.wifi = up]
           IN /\ now' = w.now
              /\ wifi' = w.wifi
              /\ call' = [NoCall EXCEPT
                              !.op = "elapse",
                              !.arg = <<elapsed>>,
                              !.snapshot = <<needsHeartbeat(w),
                                             isPlatformActive(w),
                                             Attempts(reconnectStage(w)),
                                             Attempts(autoReconnectStage(w))>>]
    /\ UNCHANGED <<device, config, simple, network, contacted>>

NextClock ==
    \/ DoElapse
    \/ Idle

SpecClock == InitClock /\ [][NextClock]_vars

----------------------------------------------------------------------------
(* The two call paths side by side: an object of the class of part_000,    *)
(* whose performHttpRequest is called through forceHeartbeat, and an       *)
(* object of the simplified class after begin("a", "a", "a", "a", "a")     *)
(* has returned true, called through sendSensorData and testConnection, on *)
(* the same link.  Time passes in the waits between the attempts only.     *)

InitPaths ==
    /\ InitDevice
    /\ initialized = TRUE
    /\ wifiSSID = "a"
    /\ wifiPassword = "a"
    /\ apiKey = "a"
    /\ platformURL = "a"
    /\ deviceName = "a"
    /\ lastReconnectAttempt = 0

NextPaths ==
    \/ DoForceHeartbeat
    \/ DoSimpleSendSensorData
    \/ DoSimpleTestConnection
    \/ LinkUp
    \/ LinkDown
    \/ Idle

SpecPaths == InitPaths /\ [][NextPaths]_vars

----------------------------------------------------------------------------
(* Vocabulary of the properties *)

\* The calls that hand one document to performHttpRequest and return its
\* response.
DataSends == {"sendRawData", "sendSensorData", "sendSensorValues"}
Submits == DataSends \cup {"forceHeartbeat", "testConnection"}

Transient(code) == code \notin {200, 201, 400, 401}

AllTransient(posts) == \A i \in 1..Len(posts) : Transient(posts[i].code)

IsHttpEvent(e) == e \in {"open", "post", "close", "delay"}
HttpEvents(ev) == SelectSeq(ev, IsHttpEvent)

IsReset(e) == e = "reset"
Resets(ev) == Len(SelectSeq(ev, IsReset))

IsBegin(e) == e = "begin"
Begins(ev) == Len(SelectSeq(ev, IsBegin))

\* n attempts one after another, each on a handle opened for it and closed
\* before the next, with one wait between two attempts and none after the last.
RECURSIVE AttemptEvents(_)
AttemptEvents(n) ==
    IF n = 0 THEN <<>>
    ELSE IF n = 1 THEN <<"open", "post", "close">>
    ELSE AttemptEvents(n - 1) \o <<"delay", "open", "post", "close">>

\* How many of the failures recorded reached the threshold.
AtThreshold(recorded) ==
    Cardinality({i \in 1..Len(recorded) : recorded[i] >= maxConsecutiveFailures})

\* The four ways a call of performHttpRequest ends.
EndedNotAssociated(c) ==
    /\ c.posts = <<>>
    /\ ~c.response.success
    /\ c.response.errorMessage = WiFiNotConnectedMsg

EndedInSuccess(c) ==
    /\ c.posts # <<>>
    /\ c.response.success
    /\ c.posts[Len(c.posts)].code \in {200, 201}

EndedInFatalStop(c) ==
    /\ c.posts # <<>>
    /\ ~c.response.success
    /\ c.posts[Len(c.posts)].code \in {400, 401}
    /\ c.recorded = <<>>

EndedExhausted(c) ==
    /\ Len(c.posts) = maxRetries
    /\ AllTransient(c.posts)
    /\ ~c.response.success
    /\ Len(c.recorded) = 1

Outcomes(c) ==
    {o \in {"not associated", "success", "fatal stop", "exhausted"} :
        \/ o = "not associated" /\ EndedNotAssociated(c)
        \/ o = "success" /\ EndedInSuccess(c)
        \/ o = "fatal stop" /\ EndedInFatalStop(c)
        \/ o = "exhausted" /\ EndedExhausted(c)}

Contains(msg, part) == \E i \in 1..Len(msg) : msg[i] = part

\* The JSON texts of at most n tokens, generated from the grammar, each with
\* the keys of its root.
RECURSIVE JsonValues(_)
RECURSIVE JsonMembers(_)
JsonMembers(n) ==
    IF n < 3 THEN {}
    ELSE LET pairs == {[text |-> <<k, ":">> \o v.text, keys |-> {k}]
                          : k \in StringTokens, v \in JsonValues(n - 2)}
         IN pairs \cup
            UNION { {[text |-> p.text \o <<",">> \o m.text,
                      keys |-> p.keys \cup m.keys]
                        : m \in JsonMembers(n - Len(p.text) - 1)}
                    : p \in pairs }

JsonValues(n) ==
    IF n < 1 THEN {}
    ELSE {[text |-> <<s>>, keys |-> {}] : s \in StringTokens}
         \cup (IF n >= 2 THEN {[text |-> <<"{", "}">>, keys |-> {}]} ELSE {})
         \cup {[text |-> <<"{">> \o m.text \o <<"}">>, keys |-> m.keys]
                  : m \in JsonMembers(n - 2)}

JsonTexts == JsonValues(MaxDocLen)

----------------------------------------------------------------------------
(* loop() called for ever.  The access point is in reach or not: while it  *)
(* is, an association attempt succeeds, and the network layer, once        *)
(* WiFi.begin() has been called and until WiFi.disconnect(), may associate *)
(* by itself, also after connectWiFi() has given up waiting; while it is   *)
(* not, an attempt times out and the link is down.                         *)
(*                                                                         *)
(* Time has no end here.  loop() compares ages with windows of at most     *)
(* ReconnectBase + MaxFailuresCfg * ReconnectStep, so an age is counted up *)
(* to Horizon only: when the clock would pass Horizon, the clock and the   *)
(* three timestamps are moved back together, a timestamp staying at 0.     *)
(* (The wrap of millis() after 49 days is left out of this specification.) *)

Horizon == ReconnectBase + MaxFailuresCfg * ReconnectStep + 1

MovedBack(t, over) == IF t > over THEN t - over ELSE 0

IsTimeout(e) == e = "timeout"
Timeouts(ev) == Len(SelectSeq(ev, IsTimeout))

IsLinkRequest(e) == e \in {"begin", "reset", "disconnect"}

\* Whether the network layer is trying to associate after the calls of ev.
JoiningAfter(ev, before) ==
    LET requests == SelectSeq(ev, IsLinkRequest)
    IN IF requests = <<>> THEN before
       ELSE requests[Len(requests)] = "begin"

\* The attempts of the call ended as the network decides.
AsTheNetworkDecides(w) ==
    IF available THEN Timeouts(w.ev) = 0 ELSE Timeouts(w.ev) = Begins(w.ev)

LiveReturn(w, op, arg) ==
    LET over == IF w.now > Horizon THEN w.now - Horizon ELSE 0
    IN /\ status' = w.status
       /\ lastConnectionAttempt' = MovedBack(w.lastConnectionAttempt, over)
       /\ lastHeartbeat' = MovedBack(w.lastHeartbeat, over)
       /\ consecutiveFailures' = w.consecutiveFailures
       /\ lastErrorTime' = MovedBack(w.lastErrorTime, over)
       /\ lastErrorMessage' = w.lastErrorMessage
       /\ wifi' = w.wifi
       /\ now' = w.now - over
       /\ call' = [op |-> op, arg |-> arg, ret |-> w.ret,
                   response |-> w.response, ev |-> w.ev, posts |-> w.posts,
                   delays |-> w.delays, recorded |-> w.recorded,
                   snapshot |-> <<>>]
       /\ contacted' = (contacted \/ \E i \in 1..Len(w.posts) :
                                         w.posts[i].code \in {200, 201})
       /\ joining' = JoiningAfter(w.ev, joining)
       /\ UNCHANGED <<config, simple, available>>

InitLive == Init /\ maxRetries = 1

LiveLoop ==
    /\ call = NoCall
    /\ \E w \in loop(Enter) :
           /\ AsTheNetworkDecides(w)
           /\ LiveReturn(w, "loop", <<>>)

LiveTick ==
    /\ call = NoCall
    /\ LiveReturn([Enter EXCEPT !.now = @ + 1, !.recorded = <<>>], "none", <<>>)

NetworkUp ==
    /\ call = NoCall
    /\ ~available
    /\ available' = TRUE
    /\ UNCHANGED <<device, config, simple, wifi, now, call, contacted, joining>>

NetworkDown ==
    /\ call = NoCall
    /\ available
    /\ available' = FALSE
    /\ wifi' = FALSE
    /\ UNCHANGED <<device, config, simple, now, call, contacted, joining>>

\* The network layer associates by itself.
LiveLinkUp ==
    /\ call = NoCall
    /\ available
    /\ joining
    /\ ~wifi
    /\ wifi' = TRUE
    /\ UNCHANGED <<device, config, simple, network, now, call, contacted>>

NextLive ==
    \/ LiveLoop
    \/ LiveTick
    \/ NetworkUp
    \/ NetworkDown
    \/ LiveLinkUp
    \/ Idle

\* The caller takes the result of every call, time passes again and again,
\* and loop() is called again and again.  LiveLoop is enabled whenever no
\* result is pending, so the last conjunct is strong fairness of LiveLoop.
SpecLive ==
    /\ InitLive
    /\ [][NextLive]_vars
    /\ WF_vars(Idle)
    /\ SF_vars(LiveTick)
    /\ []<><<LiveLoop>>_vars

----------------------------------------------------------------------------
(* Properties *)

\* C1: consecutiveFailures goes down only in a call that succeeded or reset
\* (or cleared the errors), and it is 0 right after every call whose
\* submission got 200 or 201.
C1_ZeroAfterSuccess ==
    [][ /\ consecutiveFailures' < consecutiveFailures
            => \/ call'.response.success
               \/ call'.op \in {"connectWiFi", "loop", "clearErrors"}
               \/ Resets(call'.ev) > 0
        /\ call'.response.success => consecutiveFailures' = 0 ]_vars

C3_FatalCodeStops ==
    \A k \in 1..Len(call.posts) :
        call.posts[k].code \in {400, 401}
        => /\ k = Len(call.posts)
           /\ Len(call.delays) = k - 1
           /\ HttpEvents(call.ev) = AttemptEvents(k)
           /\ ~call.response.success
           /\ call.response.errorMessage =
                  (IF call.posts[k].code = 401 THEN AuthFailedMsg
                   ELSE InvalidDataMsg)

C3_Witness ==
    /\ call.op \in DataSends
    /\ Len(call.posts) = 2
    /\ call.posts[1].code = 503
    /\ call.posts[2].code = 401
    /\ call.response.errorMessage = AuthFailedMsg

\* C4: when the first k - 1 attempts are transient and attempt k gets 200 or
\* 201, the call returns success = true after exactly k attempts and k - 1
\* waits, and lastHeartbeat is the time of attempt k.
C4_SuccessAtAttemptK ==
    \A k \in 1..Len(call.posts) :
        ( /\ call.posts[k].code \in {200, 201}
          /\ \A i \in 1..(k - 1) : Transient(call.posts[i].code) )
        => /\ k = Len(call.posts)
           /\ k <= maxRetries
           /\ Len(call.delays) = k - 1
           /\ HttpEvents(call.ev) = AttemptEvents(k)
           /\ call.response.success
           /\ lastHeartbeat = call.posts[k].at

C4_Witness ==
    /\ call.op \in DataSends
    /\ Len(call.posts) = 2
    /\ call.posts[1].code = 500
    /\ call.posts[2].code = 201
    /\ call.posts[2].at # call.posts[1].at
    /\ call.response.success
    /\ lastHeartbeat = call.posts[2].at

C6_VerifiedOnlyFromAssociated ==
    [][ /\ status' \in MicroSafariStatus
        /\ (status' = PLATFORM_CONNECTED /\ status # PLATFORM_CONNECTED)
               => status = WIFI_CONNECTED ]_vars

\* C7: a submission entered with the link down returns at once with
\* success = false and the not-connected message: no attempt, no wait, and
\* the failure record, lastHeartbeat and status are as before.
C7_NotAssociatedReturnsAtOnce ==
    [][ ( /\ call = NoCall
          /\ ~wifi
          /\ \/ call'.op \in {"sendSensorData", "sendSensorValues",
                              "forceHeartbeat"}
             \/ call'.op = "sendRawData" /\ validateJsonPayload(call'.arg) )
        => /\ ~call'.response.success
           /\ call'.response.errorMessage = WiFiNotConnectedMsg
           /\ call'.posts = <<>>
           /\ call'.delays = <<>>
           /\ call'.ev = <<>>
           /\ now' = now
           /\ UNCHANGED <<device, config, simple, network, wifi>>
      ]_vars

C7_Witness ==
    /\ call.op = "forceHeartbeat"
    /\ ~wifi
    /\ call.response.errorMessage = WiFiNotConnectedMsg
    /\ call.posts = <<>>
    /\ consecutiveFailures = 1
    /\ status = ERROR

\* C8: sendRawData of a document that validateJsonPayload rejects returns
\* success = false without an attempt or a wait, and the failure record,
\* lastHeartbeat and status are as before; the document sendSensorData builds
\* always passes the validation.
C8_InvalidDocumentNotSent ==
    [][ /\ ( /\ call = NoCall
            /\ call'.op = "sendRawData"
            /\ ~validateJsonPayload(call'.arg) )
          => /\ ~call'.response.success
             /\ call'.response.errorMessage = InvalidPayloadMsg
             /\ call'.posts = <<>>
             /\ call'.delays = <<>>
             /\ call'.ev = <<>>
             /\ now' = now
             /\ UNCHANGED <<device, config, simple, network, wifi>>
        /\ call'.op \in {"sendSensorData", "sendSensorValues"}
          => call'.response.errorMessage # InvalidPayloadMsg
      ]_vars

C8_Witness ==
    /\ call.op = "sendRawData"
    /\ call.arg = <<"{", "k", ":", "p", "}">>
    /\ wifi
    /\ consecutiveFailures = 1
    /\ call.response.errorMessage = InvalidPayloadMsg
    /\ call.posts = <<>>

C10_EveryPostHasWrapper ==
    \A i \in 1..Len(call.posts) : call.posts[i].wrapped

C10_Witness ==
    /\ call.op = "loop"
    /\ Len(call.posts) = 2
    /\ call.posts[1].wrapped
    /\ call.posts[2].wrapped

\* C11: needsHeartbeat is false while now - lastHeartbeat <= heartbeatInterval
\* and true once it is greater; right after a successful data send it is
\* false, and it stays false for heartbeatInterval from the last success.
C11_DueAfterInterval ==
    /\ needsHeartbeat(Enter) <=> (now - lastHeartbeat > heartbeatInterval)
    /\ (call.op \in DataSends /\ call.response.success)
           => lastHeartbeat = now /\ ~needsHeartbeat(Enter)
    /\ (contacted /\ now <= lastHeartbeat + heartbeatInterval)
           => ~needsHeartbeat(Enter)

C11_Witness ==
    /\ call = NoCall
    /\ contacted
    /\ lastHeartbeat > 0
    /\ now = lastHeartbeat + heartbeatInterval
    /\ ~needsHeartbeat(Enter)

\* C12: isPlatformActive is true exactly when the link is up and some POST
\* was answered 200 or 201 less than 2 * heartbeatInterval ago; it is false
\* as long as no POST has been answered 200 or 201.
C12_ActiveOnlyAfterContact ==
    isPlatformActive(Enter)
        <=> /\ wifi
            /\ contacted
            /\ now - lastHeartbeat < 2 * heartbeatInterval

\* C13: a call in which a POST is answered 200 or 201 sets lastHeartbeat to
\* the time of that answer, and every other step leaves lastHeartbeat as it
\* was.
C13_ContactTimeOnlyBySuccess ==
    [][ IF /\ call = NoCall
           /\ \E i \in 1..Len(call'.posts) : call'.posts[i].code \in {200, 201}
        THEN /\ lastHeartbeat' = call'.posts[Len(call'.posts)].at
             /\ lastHeartbeat' = now'
        ELSE lastHeartbeat' = lastHeartbeat ]_vars

C13_Witness ==
    /\ call.op \in DataSends
    /\ Resets(call.ev) = 1
    /\ contacted
    /\ lastHeartbeat > 0
    /\ lastHeartbeat < now

\* C14: with autoReconnect off, loop() starts no association attempt.
C14_NoAttemptWhenDisabled ==
    [][ (call = NoCall /\ call'.op = "loop" /\ ~autoReconnect)
        => Begins(call'.ev) = 0 ]_vars

\* C15: loop() starts an association attempt only when the time since
\* lastConnectionAttempt is more than 30 s + consecutiveFailures * 10 s (a
\* loop() that sends no heartbeat, so that both are as the call found them).
C15_AttemptOnlyAfterBackoff ==
    [][ ( /\ call = NoCall
          /\ call'.op = "loop"
          /\ call'.posts = <<>>
          /\ Begins(call'.ev) > 0 )
        => now - lastConnectionAttempt
               > ReconnectBase + consecutiveFailures * ReconnectStep ]_vars

\* C16: after a loop() that started no association attempt, status is
\* Associated or PlatformVerified when the link is up and Disconnected when
\* it is not.
C16_StatusFollowsLink ==
    (call.op = "loop" /\ Begins(call.ev) = 0)
        => IF wifi THEN status \in {WIFI_CONNECTED, PLATFORM_CONNECTED}
           ELSE status = DISCONNECTED

\* C17: a connectWiFi that returns true sets status to Associated and leaves
\* consecutiveFailures, lastErrorMessage and lastErrorTime as they were.
C17_ConnectLeavesFailureRecord ==
    [][ (call = NoCall /\ call'.op = "connectWiFi" /\ call'.ret)
        => /\ status' = WIFI_CONNECTED
           /\ UNCHANGED <<consecutiveFailures, lastErrorMessage, lastErrorTime>>
      ]_vars

\* C18 as stated: a connectWiFi that times out returns with status Error,
\* the counter one higher, the time stamped and the message stored, whatever
\* the counter was.
C18_TimeoutRecordsOneFailure ==
    [][ (call = NoCall /\ call'.op = "connectWiFi" /\ ~call'.ret)
        => /\ status' = ERROR
           /\ consecutiveFailures' = consecutiveFailures + 1
           /\ lastErrorTime' = now'
           /\ lastErrorMessage' = WiFiFailedMsg ]_vars

\* C18 amended: a connectWiFi that times out returns false with the link
\* down, the time stamped and the message stored; below the threshold status
\* is Error and the counter one higher, and when this failure reaches the
\* threshold the reset runs once and status is Disconnected and the counter 0.
C18_TimeoutRecordsOrResets ==
    [][ (call = NoCall /\ call'.op = "connectWiFi" /\ ~call'.ret)
        => /\ ~wifi'
           /\ lastErrorTime' = now'
           /\ lastErrorMessage' = WiFiFailedMsg
           /\ IF consecutiveFailures + 1 >= maxConsecutiveFailures
              THEN /\ Resets(call'.ev) = 1
                   /\ status' = DISCONNECTED
                   /\ consecutiveFailures' = 0
              ELSE /\ Resets(call'.ev) = 0
                   /\ status' = ERROR
                   /\ consecutiveFailures' = consecutiveFailures + 1 ]_vars

C18_Witness ==
    /\ call.op = "connectWiFi"
    /\ ~call.ret
    /\ maxConsecutiveFailures = 2
    /\ Resets(call.ev) = 1
    /\ status = DISCONNECTED
    /\ consecutiveFailures = 0
    /\ lastErrorMessage = WiFiFailedMsg
    /\ lastErrorTime = now

\* C19: when a call returns from the reset, the link is down, status is
\* Disconnected, consecutiveFailures is 0, lastErrorMessage is empty and
\* lastErrorTime is 0.
C19_ResetClearsFailureRecord ==
    (call.op \in Submits \cup {"connectWiFi"} /\ Resets(call.ev) > 0)
        => /\ ~wifi
           /\ status = DISCONNECTED
           /\ consecutiveFailures = 0
           /\ lastErrorMessage = EmptyString
           /\ lastErrorTime = 0

\* C20: a call that succeeds sets consecutiveFailures to 0 and leaves
\* lastErrorMessage and lastErrorTime; these two change only when a failure is
\* recorded or the caller calls clearErrors.
C20_LastErrorKeptUntilCleared ==
    [][ /\ (call = NoCall /\ call'.response.success)
            => /\ consecutiveFailures' = 0
               /\ UNCHANGED <<lastErrorMessage, lastErrorTime>>
        /\ (lastErrorMessage' # lastErrorMessage \/ lastErrorTime' # lastErrorTime)
            => \/ call'.op = "clearErrors"
               \/ lastErrorMessage' # EmptyString ]_vars

\* C21: a submission that uses up all its attempts returns success = false,
\* with the code of the last attempt and the message that this code alone
\* selects (503: service unavailable; code <= 0: network error; any other:
\* server error with the code, retries exhausted), and it calls
\* handleConnectionFailure exactly once.
C21_ExhaustedClassifiedByLastCode ==
    [][ ( /\ call = NoCall
          /\ call'.op \in Submits
          /\ Len(call'.posts) = maxRetries
          /\ AllTransient(call'.posts) )
        => LET last == call'.posts[maxRetries].code
           IN /\ ~call'.response.success
              /\ call'.response.httpCode = last
              /\ call'.response.errorMessage =
                     (IF last = 503 THEN ServiceUnavailableMsg
                      ELSE IF last <= 0 THEN NetworkErrorMsg
                      ELSE ServerErrorMsg(last))
              /\ call'.recorded = <<consecutiveFailures + 1>>
      ]_vars

C21_Witness ==
    /\ call.op \in DataSends
    /\ Len(call.posts) = 2
    /\ call.posts[1].code = 503
    /\ call.posts[2].code = 500
    /\ ~call.response.success
    /\ call.response.errorMessage = ServerErrorMsg(500)
    /\ Len(call.recorded) = 1

\* C22: resetConnectionState runs only inside handleConnectionFailure and
\* only when the counter it has just incremented is at or above
\* maxConsecutiveFailures: every call resets as many times as it recorded a
\* failure that reached the threshold, and clearErrors, disconnect, the
\* setters and the diagnostics never reset.
C22_ResetOnlyFromFailureAtThreshold ==
    [][ /\ Resets(call'.ev) = AtThreshold(call'.recorded)
        /\ call'.op \in {"clearErrors", "disconnect", "setAutoReconnect",
                         "setMaxConsecutiveFailures"} \cup DiagnosticOps
            => Resets(call'.ev) = 0 /\ call'.recorded = <<>>
        /\ call'.response.success /\ call'.op \in Submits
            => Resets(call'.ev) = 0 ]_vars

C22_Witness ==
    /\ call.op \in DataSends
    /\ maxConsecutiveFailures = 1
    /\ call.recorded = <<2>>
    /\ Resets(call.ev) = 1
    /\ consecutiveFailures = 0

\* C23: a diagnostics call (getConnectionDiagnostics, getDetailedStatus,
\* getLastError, getStatus, isPlatformActive) changes neither the status, nor
\* the failure record, nor the heartbeat time, nor the configuration, and a
\* diagnostics call that follows the same call at once returns the same
\* content.
C23_DiagnosticsReadOnlyAndRepeatable ==
    [][ /\ call'.op \in DiagnosticOps => UNCHANGED <<device, config>>
        /\ (call.op \in DiagnosticOps /\ call'.op = call.op)
            => call'.snapshot = call.snapshot ]_vars

\* C29: runConnectivityTest() returns true only when the link was up, the
\* gateway address was present, the test submission succeeded and the body
\* submitted had the wrapper key; it then leaves status at
\* MICROSAFARI_PLATFORM_CONNECTED, consecutiveFailures at 0 and the last
\* error empty.  When it returns false the last error and the counter are as
\* before, unless the call recorded a failure, and then the last error is
\* that failure.
C29_ConnectivityTestVerdict ==
    [][ (call = NoCall /\ call'.op = "runConnectivityTest")
        => IF call'.ret
           THEN /\ wifi
                /\ call'.arg = <<TRUE>>
                /\ call'.response.success
                /\ call'.posts # <<>>
                /\ call'.posts[Len(call'.posts)].code \in {200, 201}
                /\ call'.posts[Len(call'.posts)].wrapped
                /\ status' = PLATFORM_CONNECTED
                /\ consecutiveFailures' = 0
                /\ lastErrorMessage' = EmptyString
                /\ lastErrorTime' = 0
           ELSE IF call'.recorded = <<>>
                THEN UNCHANGED <<consecutiveFailures, lastErrorMessage,
                                 lastErrorTime>>
                ELSE /\ lastErrorMessage' = call'.response.errorMessage
                     /\ lastErrorMessage' # EmptyString
                     /\ lastErrorTime' = now'
      ]_vars

C29_Witness ==
    /\ call.op = "runConnectivityTest"
    /\ call.ret
    /\ call.arg = <<TRUE>>
    /\ Len(call.posts) = 2
    /\ call.posts[1].code = 503
    /\ call.posts[2].code = 200
    /\ status = PLATFORM_CONNECTED
    /\ consecutiveFailures = 0
    /\ lastErrorMessage = EmptyString

C28_HeartbeatOnlyWhenLinkedAndDue ==
    /\ [](call = NoCall =>
            \A w1 \in reconnectStage(Enter) :
                LET w2 == updateStatus(w1)
                IN \A w3 \in heartbeatStage(w2) :
                       /\ (w3.posts # <<>>)
                              <=> ( /\ w2.wifi
                                    /\ Elapsed(w2.now, w2.lastHeartbeat)
                                           > heartbeatInterval )
                       /\ \A w4 \in autoReconnectStage(w3) : w4.posts = w3.posts)
    /\ [](\A i \in 1..Len(call.posts) : call.posts[i].endpoint = IngestEndpoint)
    /\ [][ (call = NoCall /\ call'.op = "loop")
            => /\ Len(call'.posts) <= maxRetries
               /\ HttpEvents(call'.ev) = AttemptEvents(Len(call'.posts))
               /\ \A i \in 1..Len(call'.posts) : call'.posts[i].wrapped
               /\ \A i \in 1..(Len(call'.posts) - 1) :
                      Transient(call'.posts[i].code)
               /\ (wifi \/ status = WIFI_CONNECTING)
                      => ( (call'.posts # <<>>)
                           <=> ( /\ wifi
                                 /\ Elapsed(now, lastHeartbeat) > heartbeatInterval ) )
          ]_vars

C28_Witness ==
    /\ call.op = "loop"
    /\ call.ev # <<>>
    /\ call.ev[1] = "begin"
    /\ Len(call.posts) = 1
    /\ call.posts[1].code = 200
    /\ call.posts[1].wrapped
    /\ call.posts[1].endpoint = IngestEndpoint
    /\ lastHeartbeat = call.posts[1].at
    /\ status = WIFI_CONNECTED

\* C24: begin() returns false when the network name, the password, the API
\* key or the platform URL is empty and true otherwise; a begin() that
\* returns false leaves the five stored strings as they were and leaves the
\* instance not initialized, so that connectWiFi() and sendSensorData()
\* refuse to work.
C24_BeginChecksRequiredFields ==
    [][ (call = NoCall /\ call'.op = "begin")
        => /\ call'.ret = (\A i \in 1..4 : call'.arg[i] # "")
           /\ ~call'.ret => (UNCHANGED stored /\ ~initialized')
      ]_vars

\* C27: in a call that submits, the HTTP handle is opened and closed once
\* for every attempt: it is closed before the wait that follows a failed
\* attempt, before the next attempt opens it and before the call returns.
C27_HandleOpenedAndClosedPerAttempt ==
    call.op \in {"sendSensorData", "testConnection"}
        => HttpEvents(call.ev) = AttemptEvents(Len(call.posts))

C25_EventuallyAssociated ==
    []( [](available /\ autoReconnect)
        => <>(status \in {WIFI_CONNECTED, PLATFORM_CONNECTED}) )

\* The calls of SpecPaths that go through performHttpRequest; sendSensorData
\* and testConnection are those of the simplified variant there.
EngineOps == {"forceHeartbeat"}

LastCode(c) == c.posts[Len(c.posts)].code

\* C31: performHttpRequest reports success only when the last attempt was
\* answered 200 or 201; an attempt answered anything but 200, 201, 400 or
\* 401 (204 and 302 among them) is followed by another attempt or, when it
\* was the last one allowed, by a recorded failure and success = false.  In
\* the simplified variant sendSensorData and testConnection report success
\* exactly for the codes from 200 to 399.
C31_SuccessByCallPath ==
    [][ /\ ( call'.op \in EngineOps /\ call'.posts # <<>> =>
              /\ call'.response.success = (LastCode(call') \in {200, 201})
              /\ \A i \in 1..Len(call'.posts) :
                     call'.posts[i].code \notin {200, 201, 400, 401} =>
                        \/ i < Len(call'.posts)
                        \/ /\ i = maxRetries
                           /\ ~call'.response.success
                           /\ Len(call'.recorded) = 1
                           /\ lastErrorMessage' = call'.response.errorMessage )
        /\ ( call'.op = "sendSensorData" /\ call'.posts # <<>> =>
              call'.response.success
                  = (LastCode(call') >= 200 /\ LastCode(call') < 400) )
        /\ ( call'.op = "testConnection" /\ call'.posts # <<>> =>
              call'.ret = (LastCode(call') >= 200 /\ LastCode(call') < 400) )
      ]_vars

\* A submission of the engine answered 302 and then 204 has failed, and a
\* failure was recorded.
C31_Witness ==
    /\ call.op = "forceHeartbeat"
    /\ Len(call.posts) = 2
    /\ call.posts[1].code = 302
    /\ call.posts[2].code = 204
    /\ ~call.response.success
    /\ Len(call.recorded) = 1

\* C32: a loop() whose heartbeat failed records exactly one failure for it,
\* whether the heartbeat stopped on 400 or 401 or used up its attempts (any
\* other failure recorded in that loop() comes from an association attempt
\* that timed out).
C32_FailedHeartbeatRecordedOnce ==
    [][ call'.op = "loop" /\ call'.posts # <<>>
        /\ LastCode(call') \notin {200, 201}
        => Len(call'.recorded) = 1 + Timeouts(call'.ev) ]_vars

\* C33: 0 <= consecutiveFailures, and a step that leaves the threshold as it
\* is keeps consecutiveFailures < maxConsecutiveFailures; a step breaks this
\* bound only by lowering the threshold below the count; every call that
\* recorded a failure ends with the bound in force.
C33_BrokenOnlyByThresholdBelowCount ==
    [][ /\ consecutiveFailures' >= 0
        /\ ( maxConsecutiveFailures' = maxConsecutiveFailures
             /\ consecutiveFailures < maxConsecutiveFailures
             => consecutiveFailures' < maxConsecutiveFailures' )
        /\ ( consecutiveFailures < maxConsecutiveFailures
             /\ ~(consecutiveFailures' < maxConsecutiveFailures')
             => /\ call'.op = "setMaxConsecutiveFailures"
                /\ maxConsecutiveFailures' < maxConsecutiveFailures
                /\ maxConsecutiveFailures' < consecutiveFailures )
        /\ ( call'.recorded # <<>>
             => consecutiveFailures' < maxConsecutiveFailures' )
      ]_vars

\* C33, amended: the same, the bound being broken only by lowering the
\* threshold to the count or below it.
C33_BrokenOnlyByThresholdAtOrBelowCount ==
    [][ /\ consecutiveFailures' >= 0
        /\ ( maxConsecutiveFailures' = maxConsecutiveFailures
             /\ consecutiveFailures < maxConsecutiveFailures
             => consecutiveFailures' < maxConsecutiveFailures' )
        /\ ( consecutiveFailures < maxConsecutiveFailures
             /\ ~(consecutiveFailures' < maxConsecutiveFailures')
             => /\ call'.op = "setMaxConsecutiveFailures"
                /\ maxConsecutiveFailures' < maxConsecutiveFailures
                /\ maxConsecutiveFailures' <= consecutiveFailures )
        /\ ( call'.recorded # <<>>
             => consecutiveFailures' < maxConsecutiveFailures' )
      ]_vars

\* The threshold has just been lowered to the count.
C33_Witness ==
    /\ call.op = "setMaxConsecutiveFailures"
    /\ consecutiveFailures > 0
    /\ consecutiveFailures >= maxConsecutiveFailures

\* C34: a call of sendRawData, sendSensorData, sendSensorValues,
\* forceHeartbeat or testConnection whose last attempt was answered 400 or
\* 401 records no failure and makes no reset: consecutiveFailures,
\* lastErrorMessage and lastErrorTime are as before the call, and when no
\* error was recorded before it getLastError() still reports none.
C34_FatalStopRecordsNothing ==
    [][ call'.op \in Submits /\ call'.posts # <<>>
        /\ LastCode(call') \in {400, 401}
        => /\ call'.recorded = <<>>
           /\ Resets(call'.ev) = 0
           /\ consecutiveFailures' = consecutiveFailures
           /\ lastErrorMessage' = lastErrorMessage
           /\ lastErrorTime' = lastErrorTime
           /\ ( lastErrorMessage = EmptyString
                => getLastError(Enter)' = <<"No errors recorded">> ) ]_vars

\* A data send stopped by 401 after an earlier failure of another kind: the
\* record still shows the earlier failure.
C34_Witness ==
    /\ call.op = "sendRawData"
    /\ call.posts # <<>>
    /\ LastCode(call) = 401
    /\ call.response.errorMessage = AuthFailedMsg
    /\ consecutiveFailures = 1
    /\ lastErrorMessage = WiFiFailedMsg

\* C35: between public calls status is never MICROSAFARI_WIFI_CONNECTING, and
\* connectWiFi() leaves MICROSAFARI_WIFI_CONNECTED when it returns true,
\* MICROSAFARI_ERROR when it returns false, or MICROSAFARI_DISCONNECTED when
\* the failure it recorded made the reset.
C35_NeverConnectingBetweenCalls ==
    /\ status # WIFI_CONNECTING
    /\ ( call.op = "connectWiFi" =>
            IF call.ret
            THEN status = WIFI_CONNECTED
            ELSE \/ status = ERROR /\ Resets(call.ev) = 0
                 \/ status = DISCONNECTED /\ Resets(call.ev) = 1 )

\* A connectWiFi() that timed out at the threshold: the failure it recorded
\* made the reset.
C35_Witness ==
    /\ call.op = "connectWiFi"
    /\ ~call.ret
    /\ status = DISCONNECTED
    /\ Resets(call.ev) = 1

\* C36: one call of loop() starts at most one association attempt.
C36_OneAttemptPerLoop ==
    [][ call'.op = "loop" => Begins(call'.ev) <= 1 ]_vars

\* C37: status becomes MICROSAFARI_PLATFORM_CONNECTED only in a call of
\* testConnection() (also the one inside runConnectivityTest()) whose
\* submission succeeded; it stops being MICROSAFARI_PLATFORM_CONNECTED only
\* in connectWiFi(), in disconnect(), in a call that made the reset, or in a
\* loop() entered with the link down.  So a call that posts, makes no reset
\* and no association attempt leaves it, whatever the outcome of the posts.
C37_VerifiedLeftOnlyThroughLink ==
    [][ /\ ( status # PLATFORM_CONNECTED /\ status' = PLATFORM_CONNECTED
             => /\ call'.op \in {"testConnection", "runConnectivityTest"}
                /\ call'.response.success
                /\ LastCode(call') \in {200, 201} )
        /\ ( status = PLATFORM_CONNECTED /\ status' # PLATFORM_CONNECTED
             => \/ call'.op \in {"connectWiFi", "disconnect"}
                \/ Resets(call'.ev) > 0
                \/ call'.op = "loop" /\ ~wifi )
        /\ ( status = PLATFORM_CONNECTED /\ call'.posts # <<>>
             /\ Resets(call'.ev) = 0 /\ Begins(call'.ev) = 0
             => status' = PLATFORM_CONNECTED )
      ]_vars

\* A data send has used up its attempts below the threshold: status is still
\* MICROSAFARI_PLATFORM_CONNECTED, and isPlatformActive() is false with the
\* link up.
C37_Witness ==
    /\ status = PLATFORM_CONNECTED
    /\ call.op = "sendRawData"
    /\ call.posts # <<>>
    /\ ~call.response.success
    /\ Len(call.recorded) = 1
    /\ wifi
    /\ ~isPlatformActive(Enter)

\* C38: with maxRetries <= 0 and the link up, forceHeartbeat() and a
\* sendRawData() of a valid document make no HTTP attempt and return
\* success = false, httpCode 0 and "Network error - check connection"; one
\* failure is recorded, which adds 1 to consecutiveFailures or, at the
\* threshold, makes the reset.
C38_NoAttemptStillAFailure ==
    [][ /\ maxRetries <= 0
        /\ wifi
        /\ \/ call'.op = "forceHeartbeat"
           \/ call'.op = "sendRawData" /\ validateJsonPayload(call'.arg)
        => /\ call'.posts = <<>>
           /\ HttpEvents(call'.ev) = <<>>
           /\ ~call'.response.success
           /\ call'.response.httpCode = 0
           /\ call'.response.errorMessage = NetworkErrorMsg
           /\ call'.recorded = <<consecutiveFailures + 1>>
           /\ lastErrorMessage' = NetworkErrorMsg
           /\ IF consecutiveFailures + 1 >= maxConsecutiveFailures
              THEN Resets(call'.ev) = 1 /\ consecutiveFailures' = 0
              ELSE Resets(call'.ev) = 0
                   /\ consecutiveFailures' = consecutiveFailures + 1
      ]_vars

\* With maxRetries = 0 a second data send in a row, without any attempt, has
\* reached the threshold 2 and made the reset.
C38_Witness ==
    /\ maxRetries = 0
    /\ maxConsecutiveFailures = 2
    /\ call.op = "sendRawData"
    /\ call.posts = <<>>
    /\ call.response.errorMessage = NetworkErrorMsg
    /\ call.recorded = <<2>>
    /\ Resets(call.ev) = 1

\* C39: elapsed units of time (less than ClockMod) after the timestamps were
\* written, needsHeartbeat() is (elapsed > heartbeatInterval), the first
\* window of loop() has passed when elapsed > ReconnectBase and the second
\* when elapsed > ReconnectBase + consecutiveFailures * ReconnectStep, also
\* when millis() has wrapped in between; isPlatformActive() is
\* (link up and elapsed < 2 * heartbeatInterval) when 2 * heartbeatInterval
\* is less than ClockMod, and compares with 2 * heartbeatInterval - ClockMod
\* otherwise.
C39_AgesAcrossTheWrap ==
    [][ call'.op = "elapse" =>
          LET elapsed == call'.arg[1]
              result == call'.snapshot
          IN /\ result[1] = (elapsed > heartbeatInterval)
             /\ result[3] = (~wifi' /\ elapsed > ReconnectBase)
             /\ result[4] = ( ~wifi' /\ elapsed > ReconnectBase
                                 + consecutiveFailures * ReconnectStep )
             /\ IF 2 * heartbeatInterval < ClockMod
                THEN result[2] = (wifi' /\ elapsed < 2 * heartbeatInterval)
                ELSE result[2] = ( wifi' /\ elapsed
                                     < 2 * heartbeatInterval - ClockMod )
      ]_vars

\* millis() has wrapped since the timestamps were written, the heartbeat is
\* due, and with an interval of more than half of ClockMod
\* isPlatformActive() is false although less than two intervals have passed.
C39_Witness ==
    /\ call.op = "elapse"
    /\ now < lastHeartbeat
    /\ call.snapshot[1]
    /\ wifi
    /\ 2 * heartbeatInterval >= ClockMod
    /\ call.arg[1] < 2 * heartbeatInterval
    /\ ~call.snapshot[2]

\* C40: in the simplified variant, while no begin() has returned true,
\* connectWiFi() returns false without a call of WiFi.begin(), and
\* sendSensorData() returns success = false and an error message without an
\* HTTP attempt; sendSensorData() does the same while the link is down.
C40_NotReadyReturnsFailure ==
    [][ /\ ( call'.op = "connectWiFi" /\ ~initialized
             => ~call'.ret /\ call'.ev = <<>> )
        /\ ( call'.op = "sendSensorData" /\ (~initialized \/ ~wifi)
             => /\ call'.posts = <<>>
                /\ call'.ev = <<>>
                /\ call'.response.errorMessage
                      = (IF ~initialized THEN NotInitializedMsg
                         ELSE WiFiNotConnectedMsg)
                /\ ~call'.response.success )
      ]_vars

====
